---- MODULE Spec2Model ----
(***************************************************************************)
(* Request dispatch of TweetyClient (src/api/client.rs): credential check, *)
(* URL parsing, body serialisation, method dispatch, network send and      *)
(* response classification, for send_request and                           *)
(* send_request_with_headers.                                              *)
(***************************************************************************)
EXTENDS Integers, Sequences, FiniteSets, TLC

\* ---------------------------------------------------------------- bounds
MaxUrlLen == 3
MaxBodyLen == 3
MaxInitCalls == 2
NumCalls == 2

\* Identities of dispatch calls on the one client.
Calls == 1..NumCalls

BoundedSeq(S, n) == UNION {[1..m -> S] : m \in 0..n}

\* ------------------------------------------------------------ credentials
\* A secret is a string, here a sequence of characters.
Secrets == {<<>>, <<"k">>}

Clients ==
  [consumer_key : Secrets, access_token : Secrets,
   consumer_key_secret : Secrets, access_token_secret : Secrets]

\* String::is_empty
is_empty(s) == Len(s) = 0

\* TweetyClient::new copies its four arguments into the fields.
new(ck, at, cks, ats) ==
  [consumer_key |-> ck, access_token |-> at,
   consumer_key_secret |-> cks, access_token_secret |-> ats]

\* Variant: the check forgets access_token_secret.
is_initialized_three_fields(self) ==
  /\ ~is_empty(self.consumer_key)
  /\ ~is_empty(self.access_token)
  /\ ~is_empty(self.consumer_key_secret)

\* Variant: the check accepts a client with any one secret set.
is_initialized_any_field(self) ==
  \/ ~is_empty(self.consumer_key)
  \/ ~is_empty(self.access_token)
  \/ ~is_empty(self.consumer_key_secret)
  \/ ~is_empty(self.access_token_secret)

is_initialized(self) ==
  /\ ~is_empty(self.consumer_key)
  /\ ~is_empty(self.access_token)
  /\ ~is_empty(self.consumer_key_secret)
  /\ ~is_empty(self.access_token_secret)

\* ------------------------------------------------------------------- URLs
\* A URL string is a sequence of characters: "A" an ASCII letter, ":" and
\* " " themselves.
UrlChars == {"A", ":", " "}
Urls == BoundedSeq(UrlChars, MaxUrlLen)

RECURSIVE TrimLeft(_)
TrimLeft(s) ==
  IF s # <<>> /\ Head(s) = " " THEN TrimLeft(Tail(s)) ELSE s

RECURSIVE TrimRight(_)
TrimRight(s) ==
  IF s # <<>> /\ s[Len(s)] = " " THEN TrimRight(SubSeq(s, 1, Len(s) - 1)) ELSE s

\* Number of leading letters of s (the candidate scheme).
RECURSIVE SchemeLen(_)
SchemeLen(s) ==
  IF s # <<>> /\ Head(s) = "A" THEN 1 + SchemeLen(Tail(s)) ELSE 0

\* Url::parse(url) followed by Url::to_string: leading and trailing spaces
\* are dropped; the input must start with a scheme (letters) and ":", or the
\* parser reports a relative URL without a base; the scheme is lower-cased
\* in the serialisation.
UrlParse(url) ==
  LET t == TrimRight(TrimLeft(url))
      n == SchemeLen(t)
  IN IF n >= 1 /\ Len(t) > n /\ t[n + 1] = ":"
       THEN [ok |-> TRUE,
             url |-> [i \in 1..Len(t) |-> IF i <= n THEN "a" ELSE t[i]],
             err |-> ""]
       ELSE [ok |-> FALSE, url |-> <<>>, err |-> "RelativeUrlWithoutBase"]

\* ------------------------------------------------------------------- JSON
\* JSON values (serde_json::Value and the caller's body type T): numbers,
\* strings and maps with at most one entry.  A map entry is <<key, value>>;
\* a serde_json::Value map has string keys only, a caller's map may have
\* any key type.
NoValue == [t |-> "none", n |-> 0, s |-> "", items |-> <<>>]
JNum(n) == [t |-> "num", n |-> n, s |-> "", items |-> <<>>]
JStr(s) == [t |-> "str", n |-> 0, s |-> s, items |-> <<>>]
JMap(items) == [t |-> "map", n |-> 0, s |-> "", items |-> items]

\* Decimal text of a number and quoted text of a string, as JSON tokens.
NumText == (15 :> "15" @@ 42 :> "42")
Quote == ("id" :> "\"id\"" @@ "error" :> "\"error\"" @@
          "forbidden" :> "\"forbidden\"" @@ "text" :> "\"text\"" @@
          "hello" :> "\"hello\"" @@ "15" :> "\"15\"" @@ "42" :> "\"42\"")
NumTokens == {NumText[n] : n \in DOMAIN NumText}
StrTokens == {Quote[s] : s \in DOMAIN Quote}
NumOf(tok) == CHOOSE n \in DOMAIN NumText : NumText[n] = tok
Unquote(tok) == CHOOSE s \in DOMAIN Quote : Quote[s] = tok

\* serde_json::to_string: the compact JSON text of a value, as a token
\* sequence.  A map key must be a string (an integer key is written as a
\* quoted string); any other key type is the error "key must be a string".
RECURSIVE to_string(_)
to_string(v) ==
  IF v.t = "num" THEN [ok |-> TRUE, text |-> <<NumText[v.n]>>]
  ELSE IF v.t = "str" THEN [ok |-> TRUE, text |-> <<Quote[v.s]>>]
  ELSE IF v.items = <<>> THEN [ok |-> TRUE, text |-> <<"{", "}">>]
  ELSE LET k == v.items[1]
           inner == to_string(v.items[2])
           key == IF k.t = "str" THEN <<Quote[k.s]>>
                  ELSE IF k.t = "num" THEN <<Quote[NumText[k.n]]>>
                  ELSE <<>>
       IN IF key = <<>> \/ ~inner.ok
            THEN [ok |-> FALSE, text |-> <<>>]
            ELSE [ok |-> TRUE,
                  text |-> <<"{">> \o key \o <<":">> \o inner.text \o <<"}">>]

\* One JSON value read from the front of a token sequence.
RECURSIVE ParseValue(_)
ParseValue(toks) ==
  LET Fail == [ok |-> FALSE, val |-> NoValue, rest |-> <<>>]
  IN IF toks = <<>> THEN Fail
     ELSE LET h == Head(toks)
              r == Tail(toks)
          IN IF h \in NumTokens THEN [ok |-> TRUE, val |-> JNum(NumOf(h)), rest |-> r]
             ELSE IF h \in StrTokens THEN [ok |-> TRUE, val |-> JStr(Unquote(h)), rest |-> r]
             ELSE IF h # "{" \/ r = <<>> THEN Fail
             ELSE IF Head(r) = "}" THEN [ok |-> TRUE, val |-> JMap(<<>>), rest |-> Tail(r)]
             ELSE IF Len(r) < 3 \/ r[1] \notin StrTokens \/ r[2] # ":" THEN Fail
             ELSE LET v == ParseValue(SubSeq(r, 3, Len(r)))
                  IN IF v.ok /\ v.rest # <<>> /\ Head(v.rest) = "}"
                       THEN [ok |-> TRUE,
                             val |-> JMap(<<JStr(Unquote(r[1])), v.val>>),
                             rest |-> Tail(v.rest)]
                       ELSE Fail

\* serde_json::from_slice::<Value>, used by Response::json: the whole text
\* must be exactly one JSON value.
from_slice(text) ==
  LET p == ParseValue(text)
  IN IF p.ok /\ p.rest = <<>>
       THEN [ok |-> TRUE, val |-> p.val]
       ELSE [ok |-> FALSE, val |-> NoValue]

\* ----------------------------------------------------------------- inputs
Variants == {"send_request", "send_request_with_headers"}
Methods == {"GET", "POST", "PUT", "DELETE", "PATCH"}

\* Option<T>: None, or Some(v).
None == [some |-> FALSE, v |-> NoValue]
Some(v) == [some |-> TRUE, v |-> v]
TextHello == JMap(<<JStr("text"), JStr("hello")>>)
MapKeyedByMap == JMap(<<JMap(<<>>), JNum(42)>>)
Bodies == {None, Some(TextHello), Some(MapKeyedByMap)}

\* What the network can answer.
Statuses == {200, 299, 300, 403}
StatusDisplay == (200 :> "200 OK" @@ 299 :> "299 <unknown status code>" @@
                  300 :> "300 Multiple Choices" @@ 403 :> "403 Forbidden")
HeaderMaps == {<<>>, << <<"x-rate-limit", "15">> >>}
BodyTokens == {"{", "}"}
SampleValues == {JMap(<<JStr("id"), JNum(42)>>),
                 JMap(<<JStr("error"), JStr("forbidden")>>)}
NotJson == <<"not", "json">>
ResponseTexts ==
  BoundedSeq(BodyTokens, MaxBodyLen) \cup {to_string(v).text : v \in SampleValues}
    \cup {NotJson}
SendFailures == {"dns", "connect", "tls", "timeout"}
BodyFailures == {"connect", "timeout"}

\* Variant: every status below 400 counts as a success.
is_success_below_400(status) == 200 <= status /\ status <= 399

\* StatusCode::is_success
is_success(status) == 200 <= status /\ status <= 299

\* fmt::Debug of a HeaderMap, as tokens.
RECURSIVE HeaderDebug(_)
HeaderDebug(h) ==
  IF h = <<>> THEN <<>>
  ELSE <<Head(h)[1], Head(h)[2]>> \o HeaderDebug(Tail(h))

\* ------------------------------------------------------------------ state
VARIABLES
  client,        \* the TweetyClient: its four secrets
  init_returns,  \* what the calls of is_initialized made so far returned
  pc,            \* per call: where the call is
  args,          \* per call: variant, url, method, body
  parsed_url,    \* per call: local parsed_url
  json_body,     \* per call: local json_body
  request,       \* per call: the outbound request built by the method match
  sends,         \* per call: how many times the request was sent
  response,      \* per call: what the network delivered so far
  headers,       \* per call: local headers (send_request_with_headers)
  fault,         \* per call: the transport failure that happened, if any
  results        \* per call: the Results handed to the caller

vars == <<client, init_returns, pc, args, parsed_url, json_body, request,
          sends, response, headers, fault, results>>

NoArgs == [variant |-> "", url |-> <<>>, method |-> "", body |-> None]
NoRequest == [built |-> FALSE, method |-> "", url |-> <<>>, content_type |-> "",
              has_body |-> FALSE, body |-> <<>>, secrets |-> <<>>]
NoResponse == [received |-> FALSE, status |-> 0, headers |-> <<>>,
               body_read |-> FALSE, text |-> <<>>]
NoHeaders == [captured |-> FALSE, map |-> <<>>]
NoFault == [phase |-> "none", kind |-> ""]

\* Result<_, TweetyError> values.
Ok(value, hdrs) == [kind |-> "Ok", value |-> value, headers |-> hdrs, msg |-> <<>>]
Err(kind, msg) == [kind |-> kind, value |-> NoValue, headers |-> <<>>, msg |-> msg]

Init ==
  /\ client \in {new(ck, at, cks, ats) : ck \in Secrets, at \in Secrets,
                                         cks \in Secrets, ats \in Secrets}
  /\ init_returns = <<>>
  /\ pc = [c \in Calls |-> "Idle"]
  /\ args = [c \in Calls |-> NoArgs]
  /\ parsed_url = [c \in Calls |-> <<>>]
  /\ json_body = [c \in Calls |-> <<>>]
  /\ request = [c \in Calls |-> NoRequest]
  /\ sends = [c \in Calls |-> 0]
  /\ response = [c \in Calls |-> NoResponse]
  /\ headers = [c \in Calls |-> NoHeaders]
  /\ fault = [c \in Calls |-> NoFault]
  /\ results = [c \in Calls |-> <<>>]

\* The call c is running `variant` and stands at `label`.
At(c, variant, label) == pc[c] = label /\ args[c].variant = variant

\* return r
Return(c, r) ==
  /\ pc' = [pc EXCEPT ![c] = "Done"]
  /\ results' = [results EXCEPT ![c] = Append(@, r)]

\* fall through to the next statement
Goto(c, label) ==
  /\ pc' = [pc EXCEPT ![c] = label]
  /\ UNCHANGED results

\* panic!: the call unwinds without a Result
Panic(c) ==
  /\ pc' = [pc EXCEPT ![c] = "Panicked"]
  /\ UNCHANGED results

\* OAuth1 signing material: Secrets::new(consumer_key, consumer_key_secret)
\* .token(access_token, access_token_secret)
SecretsOf(self) ==
  <<self.consumer_key, self.consumer_key_secret,
    self.access_token, self.access_token_secret>>

\* Variant: the catch-all arm of the method match sends a GET.
BuildRequest_default_get(self, method, url, body) ==
  IF method = "POST"
    THEN [built |-> TRUE, method |-> "POST", url |-> url,
          content_type |-> "application/json", has_body |-> TRUE,
          body |-> body, secrets |-> SecretsOf(self)]
    ELSE [built |-> TRUE, method |-> "GET", url |-> url,
          content_type |-> "", has_body |-> FALSE,
          body |-> <<>>, secrets |-> SecretsOf(self)]

\* Variant: the PUT arm attaches the payload as the POST arm does.
BuildRequest_put_with_body(self, method, url, body) ==
  IF method \in {"POST", "PUT"}
    THEN [built |-> TRUE, method |-> method, url |-> url,
          content_type |-> "application/json", has_body |-> TRUE,
          body |-> body, secrets |-> SecretsOf(self)]
  ELSE IF method \in {"GET", "DELETE"}
    THEN [built |-> TRUE, method |-> method, url |-> url,
          content_type |-> "", has_body |-> FALSE,
          body |-> <<>>, secrets |-> SecretsOf(self)]
  ELSE NoRequest

\* The request the method match builds, or no request for other methods.
BuildRequest(self, method, url, body) ==
  IF method = "POST"
    THEN [built |-> TRUE, method |-> "POST", url |-> url,
          content_type |-> "application/json", has_body |-> TRUE,
          body |-> body, secrets |-> SecretsOf(self)]
  ELSE IF method \in {"GET", "DELETE", "PUT"}
    THEN [built |-> TRUE, method |-> method, url |-> url,
          content_type |-> "", has_body |-> FALSE,
          body |-> <<>>, secrets |-> SecretsOf(self)]
  ELSE NoRequest

\* ------------------------------------------------------------- operations
\* A caller asks whether the client is initialized.
CallIsInitialized ==
  /\ Len(init_returns) < MaxInitCalls
  /\ init_returns' = Append(init_returns, is_initialized(client))
  /\ UNCHANGED <<client, pc, args, parsed_url, json_body, request, sends,
                 response, headers, fault, results>>

\* A caller starts a dispatch call.
Invoke(c, variant, url, method, body) ==
  /\ pc[c] = "Idle"
  /\ pc' = [pc EXCEPT ![c] = "Unvalidated"]
  /\ args' = [args EXCEPT ![c] = [variant |-> variant, url |-> url,
                                  method |-> method, body |-> body]]
  /\ UNCHANGED <<client, init_returns, parsed_url, json_body, request, sends,
                 response, headers, fault, results>>

\* ---------------------------------------------------------- send_request
\* Variant: the URL is checked before the credentials.
send_request_credentials_after_url(c) ==
  /\ At(c, "send_request", "Unvalidated")
  /\ IF ~UrlParse(args[c].url).ok
       THEN Return(c, Err("UrlParseError", <<UrlParse(args[c].url).err>>))
       ELSE IF ~is_initialized(client)
         THEN Return(c, Err("MissingCredentials", <<>>))
         ELSE Goto(c, "CredentialsChecked")
  /\ UNCHANGED <<client, init_returns, args, parsed_url, json_body, request,
                 sends, response, headers, fault>>

\* Variant: the method is rejected before the credentials are looked at.
send_request_credentials_method_first(c) ==
  /\ At(c, "send_request", "Unvalidated")
  /\ IF args[c].method \notin {"GET", "POST", "PUT", "DELETE"} THEN Panic(c)
     ELSE IF ~is_initialized(client)
       THEN Return(c, Err("MissingCredentials", <<>>))
       ELSE Goto(c, "CredentialsChecked")
  /\ UNCHANGED <<client, init_returns, args, parsed_url, json_body, request,
                 sends, response, headers, fault>>

\* if !self.is_initialized() { return Err(MissingCredentials) }
send_request_credentials(c) ==
  /\ At(c, "send_request", "Unvalidated")
  /\ IF ~is_initialized(client)
       THEN Return(c, Err("MissingCredentials", <<>>))
       ELSE Goto(c, "CredentialsChecked")
  /\ UNCHANGED <<client, init_returns, args, parsed_url, json_body, request,
                 sends, response, headers, fault>>

\* Variant: a URL that does not parse is used as it was given.
send_request_url_unchecked(c) ==
  /\ At(c, "send_request", "CredentialsChecked")
  /\ LET u == UrlParse(args[c].url)
     IN parsed_url' = [parsed_url EXCEPT ![c] = IF u.ok THEN u.url ELSE args[c].url]
  /\ Goto(c, "UrlParsed")
  /\ UNCHANGED <<client, init_returns, args, json_body, request, sends,
                 response, headers, fault>>

\* let parsed_url = match Url::parse(url) { Ok(url) => url.to_string(),
\*                                          Err(err) => return Err(UrlParseError(err)) }
send_request_url(c) ==
  /\ At(c, "send_request", "CredentialsChecked")
  /\ LET u == UrlParse(args[c].url)
     IN IF u.ok
          THEN /\ parsed_url' = [parsed_url EXCEPT ![c] = u.url]
               /\ Goto(c, "UrlParsed")
          ELSE /\ UNCHANGED parsed_url
               /\ Return(c, Err("UrlParseError", <<u.err>>))
  /\ UNCHANGED <<client, init_returns, args, json_body, request, sends,
                 response, headers, fault>>

\* Variant: unwrap_or_default, a body that does not serialize becomes the
\* empty payload.
send_request_body_empty_on_error(c) ==
  /\ At(c, "send_request", "UrlParsed")
  /\ json_body' = [json_body EXCEPT ![c] =
                     IF args[c].body.some THEN to_string(args[c].body.v).text
                     ELSE <<>>]
  /\ Goto(c, "Serialized")
  /\ UNCHANGED <<client, init_returns, args, parsed_url, request, sends,
                 response, headers, fault>>

\* Variant: no is_some test, None is serialized and gives the text null.
send_request_body_none_as_null(c) ==
  /\ At(c, "send_request", "UrlParsed")
  /\ IF args[c].body.some
       THEN LET j == to_string(args[c].body.v)
            IN IF j.ok
                 THEN /\ json_body' = [json_body EXCEPT ![c] = j.text]
                      /\ Goto(c, "Serialized")
                 ELSE /\ UNCHANGED json_body
                      /\ Panic(c)
       ELSE /\ json_body' = [json_body EXCEPT ![c] = <<"null">>]
            /\ Goto(c, "Serialized")
  /\ UNCHANGED <<client, init_returns, args, parsed_url, request, sends,
                 response, headers, fault>>

\* let mut json_body = String::new();
\* if body.is_some() { json_body = serde_json::to_string(&body).unwrap(); }
send_request_body(c) ==
  /\ At(c, "send_request", "UrlParsed")
  /\ IF args[c].body.some
       THEN LET j == to_string(args[c].body.v)
            IN IF j.ok
                 THEN /\ json_body' = [json_body EXCEPT ![c] = j.text]
                      /\ Goto(c, "Serialized")
                 ELSE /\ UNCHANGED json_body
                      /\ Panic(c)
       ELSE /\ json_body' = [json_body EXCEPT ![c] = <<>>]
            /\ Goto(c, "Serialized")
  /\ UNCHANGED <<client, init_returns, args, parsed_url, request, sends,
                 response, headers, fault>>

\* let response = match method { POST => ..., GET => ..., DELETE => ...,
\*                               PUT => ..., _ => panic!("Method not allowed") }
send_request_method(c) ==
  /\ At(c, "send_request", "Serialized")
  /\ LET r == BuildRequest(client, args[c].method, parsed_url[c], json_body[c])
     IN IF r.built
          THEN /\ request' = [request EXCEPT ![c] = r]
               /\ Goto(c, "RequestBuilt")
          ELSE /\ UNCHANGED request
               /\ Panic(c)
  /\ UNCHANGED <<client, init_returns, args, parsed_url, json_body, sends,
                 response, headers, fault>>

\* response.await starts: the request future is polled and the request
\* goes to the transport.
send_request_send(c) ==
  /\ At(c, "send_request", "RequestBuilt")
  /\ sends' = [sends EXCEPT ![c] = @ + 1]
  /\ Goto(c, "Sent")
  /\ UNCHANGED <<client, init_returns, args, parsed_url, json_body, request,
                 response, headers, fault>>

\* Variant: a failed send is tried again.
send_request_network_error_retry(c, kind) ==
  /\ At(c, "send_request", "Sent")
  /\ fault' = [fault EXCEPT ![c] = [phase |-> "send", kind |-> kind]]
  /\ Goto(c, "RequestBuilt")
  /\ UNCHANGED <<client, init_returns, args, parsed_url, json_body, request,
                 sends, response, headers>>

\* response.await yields Err(err): Err(NetworkError(err.to_string()))
send_request_network_error(c, kind) ==
  /\ At(c, "send_request", "Sent")
  /\ fault' = [fault EXCEPT ![c] = [phase |-> "send", kind |-> kind]]
  /\ Return(c, Err("NetworkError", <<kind>>))
  /\ UNCHANGED <<client, init_returns, args, parsed_url, json_body, request,
                 sends, response, headers>>

\* Variant: the arrival of a response does not end the wait, the call goes
\* on waiting for the network at the same await.
send_request_response_keeps_waiting(c, status, hdrs) ==
  /\ At(c, "send_request", "Sent")
  /\ response' = [response EXCEPT ![c] =
                    [received |-> TRUE, status |-> status, headers |-> hdrs,
                     body_read |-> FALSE, text |-> <<>>]]
  /\ Goto(c, "Sent")
  /\ UNCHANGED <<client, init_returns, args, parsed_url, json_body, request,
                 sends, headers, fault>>

\* response.await yields Ok(response): status line and headers are in, the
\* body is still to be read.
send_request_response(c, status, hdrs) ==
  /\ At(c, "send_request", "Sent")
  /\ response' = [response EXCEPT ![c] =
                    [received |-> TRUE, status |-> status, headers |-> hdrs,
                     body_read |-> FALSE, text |-> <<>>]]
  /\ Goto(c, "ResponseReceived")
  /\ UNCHANGED <<client, init_returns, args, parsed_url, json_body, request,
                 sends, headers, fault>>

\* Variant: the body is read in one step and decoded in a later one.
send_request_json_decode_later(c, text) ==
  /\ At(c, "send_request", "ResponseReceived")
  /\ response' = [response EXCEPT ![c].body_read = TRUE, ![c].text = text]
  /\ Goto(c, "BodyRead")
  /\ UNCHANGED <<client, init_returns, args, parsed_url, json_body, request,
                 sends, headers, fault>>

\* Variant: the status is taken from a slot that the calls share, here the
\* one call 1 wrote.
send_request_json_shared_status(c, text) ==
  /\ At(c, "send_request", "ResponseReceived")
  /\ response' = [response EXCEPT ![c].body_read = TRUE, ![c].text = text]
  /\ LET d == from_slice(text)
         status == IF response[1].received THEN response[1].status
                   ELSE response[c].status
     IN IF ~d.ok THEN Return(c, Err("JsonParseError", <<"decode">>))
        ELSE IF is_success(status) THEN Return(c, Ok(d.val, <<>>))
        ELSE Return(c, Err("ApiError",
                           <<"HTTP", StatusDisplay[status], ":">> \o to_string(d.val).text))
  /\ UNCHANGED <<client, init_returns, args, parsed_url, json_body, request,
                 sends, headers, fault>>

\* Variant: the decode error does not leave the function, the status branch
\* still produces its own outcome.
send_request_json_no_early_return(c, text) ==
  /\ At(c, "send_request", "ResponseReceived")
  /\ response' = [response EXCEPT ![c].body_read = TRUE, ![c].text = text]
  /\ LET d == from_slice(text)
         status == response[c].status
         first == IF d.ok THEN <<>> ELSE <<Err("JsonParseError", <<"decode">>)>>
         second == IF is_success(status) THEN Ok(d.val, <<>>)
                   ELSE Err("ApiError", <<"HTTP", StatusDisplay[status], ":">>)
     IN /\ pc' = [pc EXCEPT ![c] = "Done"]
        /\ results' = [results EXCEPT ![c] = @ \o first \o <<second>>]
  /\ UNCHANGED <<client, init_returns, args, parsed_url, json_body, request,
                 sends, headers, fault>>

\* Variant: a body that does not decode is reported as a network error.
send_request_json_decode_as_network(c, text) ==
  /\ At(c, "send_request", "ResponseReceived")
  /\ response' = [response EXCEPT ![c].body_read = TRUE, ![c].text = text]
  /\ LET d == from_slice(text)
         status == response[c].status
     IN IF ~d.ok THEN Return(c, Err("NetworkError", <<"decode">>))
        ELSE IF is_success(status) THEN Return(c, Ok(d.val, <<>>))
        ELSE Return(c, Err("ApiError",
                           <<"HTTP", StatusDisplay[status], ":">> \o to_string(d.val).text))
  /\ UNCHANGED <<client, init_returns, args, parsed_url, json_body, request,
                 sends, headers, fault>>

\* response.json::<Value>().await yields the body: on a decode error
\* JsonParseError; else Ok(api_response) when the status is a success and
\* Err(ApiError(format!("HTTP {}: {}", status, status_text))) when not.
send_request_json(c, text) ==
  /\ At(c, "send_request", "ResponseReceived")
  /\ response' = [response EXCEPT ![c].body_read = TRUE, ![c].text = text]
  /\ LET d == from_slice(text)
         status == response[c].status
     IN IF ~d.ok THEN Return(c, Err("JsonParseError", <<"decode">>))
        ELSE IF is_success(status) THEN Return(c, Ok(d.val, <<>>))
        ELSE Return(c, Err("ApiError",
                           <<"HTTP", StatusDisplay[status], ":">> \o to_string(d.val).text))
  /\ UNCHANGED <<client, init_returns, args, parsed_url, json_body, request,
                 sends, headers, fault>>

\* response.json::<Value>().await yields Err(err) because reading the body
\* from the connection failed: map_err(|err| JsonParseError(err.to_string()))?
send_request_json_read_error(c, kind) ==
  /\ At(c, "send_request", "ResponseReceived")
  /\ fault' = [fault EXCEPT ![c] = [phase |-> "body", kind |-> kind]]
  /\ Return(c, Err("JsonParseError", <<kind>>))
  /\ UNCHANGED <<client, init_returns, args, parsed_url, json_body, request,
                 sends, response, headers>>

\* ---------------------------------------------------------- send_request_with_headers
\* if !self.is_initialized() { return Err(MissingCredentials) }
send_request_with_headers_credentials(c) ==
  /\ At(c, "send_request_with_headers", "Unvalidated")
  /\ IF ~is_initialized(client)
       THEN Return(c, Err("MissingCredentials", <<>>))
       ELSE Goto(c, "CredentialsChecked")
  /\ UNCHANGED <<client, init_returns, args, parsed_url, json_body, request,
                 sends, response, headers, fault>>

\* Variant: a URL that does not parse is used as it was given.
send_request_with_headers_url_unchecked(c) ==
  /\ At(c, "send_request_with_headers", "CredentialsChecked")
  /\ LET u == UrlParse(args[c].url)
     IN parsed_url' = [parsed_url EXCEPT ![c] = IF u.ok THEN u.url ELSE args[c].url]
  /\ Goto(c, "UrlParsed")
  /\ UNCHANGED <<client, init_returns, args, json_body, request, sends,
                 response, headers, fault>>

\* let parsed_url = match Url::parse(url) { Ok(url) => url.to_string(),
\*                                          Err(err) => return Err(UrlParseError(err)) }
send_request_with_headers_url(c) ==
  /\ At(c, "send_request_with_headers", "CredentialsChecked")
  /\ LET u == UrlParse(args[c].url)
     IN IF u.ok
          THEN /\ parsed_url' = [parsed_url EXCEPT ![c] = u.url]
               /\ Goto(c, "UrlParsed")
          ELSE /\ UNCHANGED parsed_url
               /\ Return(c, Err("UrlParseError", <<u.err>>))
  /\ UNCHANGED <<client, init_returns, args, json_body, request, sends,
                 response, headers, fault>>

\* let mut json_body = String::new();
\* if body.is_some() { json_body = serde_json::to_string(&body).unwrap(); }
send_request_with_headers_body(c) ==
  /\ At(c, "send_request_with_headers", "UrlParsed")
  /\ IF args[c].body.some
       THEN LET j == to_string(args[c].body.v)
            IN IF j.ok
                 THEN /\ json_body' = [json_body EXCEPT ![c] = j.text]
                      /\ Goto(c, "Serialized")
                 ELSE /\ UNCHANGED json_body
                      /\ Panic(c)
       ELSE /\ json_body' = [json_body EXCEPT ![c] = <<>>]
            /\ Goto(c, "Serialized")
  /\ UNCHANGED <<client, init_returns, args, parsed_url, request, sends,
                 response, headers, fault>>

\* let response = match method { POST => ..., GET => ..., DELETE => ...,
\*                               PUT => ..., _ => panic!("Method not allowed") }
send_request_with_headers_method(c) ==
  /\ At(c, "send_request_with_headers", "Serialized")
  /\ LET r == BuildRequest(client, args[c].method, parsed_url[c], json_body[c])
     IN IF r.built
          THEN /\ request' = [request EXCEPT ![c] = r]
               /\ Goto(c, "RequestBuilt")
          ELSE /\ UNCHANGED request
               /\ Panic(c)
  /\ UNCHANGED <<client, init_returns, args, parsed_url, json_body, sends,
                 response, headers, fault>>

\* response.await starts: the request future is polled and the request
\* goes to the transport.
send_request_with_headers_send(c) ==
  /\ At(c, "send_request_with_headers", "RequestBuilt")
  /\ sends' = [sends EXCEPT ![c] = @ + 1]
  /\ Goto(c, "Sent")
  /\ UNCHANGED <<client, init_returns, args, parsed_url, json_body, request,
                 response, headers, fault>>

\* response.await yields Err(err): Err(NetworkError(err.to_string()))
send_request_with_headers_network_error(c, kind) ==
  /\ At(c, "send_request_with_headers", "Sent")
  /\ fault' = [fault EXCEPT ![c] = [phase |-> "send", kind |-> kind]]
  /\ Return(c, Err("NetworkError", <<kind>>))
  /\ UNCHANGED <<client, init_returns, args, parsed_url, json_body, request,
                 sends, response, headers>>

\* Variant: the headers are not copied out of the response while it is
\* still whole, the local stays empty.
send_request_with_headers_response_no_capture(c, status, hdrs) ==
  /\ At(c, "send_request_with_headers", "Sent")
  /\ response' = [response EXCEPT ![c] =
                    [received |-> TRUE, status |-> status, headers |-> hdrs,
                     body_read |-> FALSE, text |-> <<>>]]
  /\ headers' = [headers EXCEPT ![c] = [captured |-> FALSE, map |-> <<>>]]
  /\ Goto(c, "ResponseReceived")
  /\ UNCHANGED <<client, init_returns, args, parsed_url, json_body, request,
                 sends, fault>>

\* response.await yields Ok(response): status line and headers are in, the
\* body is still to be read; let headers = response.headers().clone()
send_request_with_headers_response(c, status, hdrs) ==
  /\ At(c, "send_request_with_headers", "Sent")
  /\ response' = [response EXCEPT ![c] =
                    [received |-> TRUE, status |-> status, headers |-> hdrs,
                     body_read |-> FALSE, text |-> <<>>]]
  /\ headers' = [headers EXCEPT ![c] = [captured |-> TRUE, map |-> hdrs]]
  /\ Goto(c, "ResponseReceived")
  /\ UNCHANGED <<client, init_returns, args, parsed_url, json_body, request,
                 sends, fault>>

\* response.json::<Value>().await yields the body: on a decode error
\* JsonParseError; else Ok(ResponseWithHeaders { body, headers }) when the
\* status is a success and
\* Err(ApiError(format!("HTTP {}: {}:{:?}", status, status_text, headers)))
\* when not.
send_request_with_headers_json(c, text) ==
  /\ At(c, "send_request_with_headers", "ResponseReceived")
  /\ response' = [response EXCEPT ![c].body_read = TRUE, ![c].text = text]
  /\ LET d == from_slice(text)
         status == response[c].status
     IN IF ~d.ok THEN Return(c, Err("JsonParseError", <<"decode">>))
        ELSE IF is_success(status) THEN Return(c, Ok(d.val, headers[c].map))
        ELSE Return(c, Err("ApiError",
                           <<"HTTP", StatusDisplay[status], ":">> \o to_string(d.val).text
                             \o <<":">> \o HeaderDebug(headers[c].map)))
  /\ UNCHANGED <<client, init_returns, args, parsed_url, json_body, request,
                 sends, headers, fault>>

\* response.json::<Value>().await yields Err(err) because reading the body
\* from the connection failed: map_err(|err| JsonParseError(err.to_string()))?
send_request_with_headers_json_read_error(c, kind) ==
  /\ At(c, "send_request_with_headers", "ResponseReceived")
  /\ fault' = [fault EXCEPT ![c] = [phase |-> "body", kind |-> kind]]
  /\ Return(c, Err("JsonParseError", <<kind>>))
  /\ UNCHANGED <<client, init_returns, args, parsed_url, json_body, request,
                 sends, response, headers>>

\* ---------------------------------------------------------- specification
send_request(c) ==
  \/ send_request_credentials(c)
  \/ send_request_url(c)
  \/ send_request_body(c)
  \/ send_request_method(c)
  \/ send_request_send(c)
  \/ pc[c] = "Sent" /\ \E kind \in SendFailures : send_request_network_error(c, kind)
  \/ pc[c] = "Sent" /\ \E status \in Statuses, hdrs \in HeaderMaps :
       send_request_response(c, status, hdrs)
  \/ pc[c] = "ResponseReceived" /\ \E text \in ResponseTexts : send_request_json(c, text)
  \/ pc[c] = "ResponseReceived" /\ \E kind \in BodyFailures : send_request_json_read_error(c, kind)

send_request_with_headers(c) ==
  \/ send_request_with_headers_credentials(c)
  \/ send_request_with_headers_url(c)
  \/ send_request_with_headers_body(c)
  \/ send_request_with_headers_method(c)
  \/ send_request_with_headers_send(c)
  \/ pc[c] = "Sent" /\ \E kind \in SendFailures : send_request_with_headers_network_error(c, kind)
  \/ pc[c] = "Sent" /\ \E status \in Statuses, hdrs \in HeaderMaps :
       send_request_with_headers_response(c, status, hdrs)
  \/ pc[c] = "ResponseReceived" /\ \E text \in ResponseTexts : send_request_with_headers_json(c, text)
  \/ pc[c] = "ResponseReceived" /\ \E kind \in BodyFailures : send_request_with_headers_json_read_error(c, kind)

\* One dispatch call on the client, and calls of is_initialized at any time.
Next ==
  \/ CallIsInitialized
  \/ pc[1] = "Idle" /\
       \E variant \in Variants, url \in Urls, method \in Methods, body \in Bodies :
         Invoke(1, variant, url, method, body)
  \/ send_request(1)
  \/ send_request_with_headers(1)

Spec == Init /\ [][Next]_vars

\* ------------------------------------------------------- a call run alone
\* What one call returns when nothing else runs: the Results (none when the
\* call panics) of send_request or send_request_with_headers on client
\* self with arguments a, when the network answers with resp and flt.
RunAlone(self, a, resp, flt) ==
  IF ~is_initialized(self) THEN <<Err("MissingCredentials", <<>>)>>
  ELSE IF ~UrlParse(a.url).ok THEN <<Err("UrlParseError", <<UrlParse(a.url).err>>)>>
  ELSE IF a.body.some /\ ~to_string(a.body.v).ok THEN <<>>
  ELSE IF a.method \notin {"POST", "GET", "DELETE", "PUT"} THEN <<>>
  ELSE IF flt.phase = "send" THEN <<Err("NetworkError", <<flt.kind>>)>>
  ELSE IF flt.phase = "body" THEN <<Err("JsonParseError", <<flt.kind>>)>>
  ELSE LET d == from_slice(resp.text)
           with_headers == a.variant = "send_request_with_headers"
       IN IF ~d.ok THEN <<Err("JsonParseError", <<"decode">>)>>
          ELSE IF is_success(resp.status)
            THEN <<Ok(d.val, IF with_headers THEN resp.headers ELSE <<>>)>>
            ELSE <<Err("ApiError",
                       <<"HTTP", StatusDisplay[resp.status], ":">> \o to_string(d.val).text
                         \o (IF with_headers THEN <<":">> \o HeaderDebug(resp.headers)
                             ELSE <<>>))>>

\* ------------------------------------------------- the two variants paired
\* The network answers call d (send_request_with_headers) with what it
\* answered call c: the same failure of the send, the same status line and
\* headers, the same body or the same failure while the body is read.
ReplayNetwork(c, d) ==
  \/ fault[c].phase = "send" /\
       send_request_with_headers_network_error(d, fault[c].kind)
  \/ response[c].received /\
       send_request_with_headers_response(d, response[c].status, response[c].headers)
  \/ response[c].body_read /\
       send_request_with_headers_json(d, response[c].text)
  \/ fault[c].phase = "body" /\
       send_request_with_headers_json_read_error(d, fault[c].kind)

\* Call 1 runs send_request to its end; call 2 then runs
\* send_request_with_headers with the same url, method and body on the same
\* client, against the same behaviour of the network.
PairNext ==
  \/ pc[1] = "Idle" /\
       \E url \in Urls, method \in Methods, body \in Bodies :
         Invoke(1, "send_request", url, method, body)
  \/ send_request(1)
  \/ pc[1] \in {"Done", "Panicked"} /\
       Invoke(2, "send_request_with_headers", args[1].url, args[1].method, args[1].body)
  \/ send_request_with_headers_credentials(2)
  \/ send_request_with_headers_url(2)
  \/ send_request_with_headers_body(2)
  \/ send_request_with_headers_method(2)
  \/ send_request_with_headers_send(2)
  \/ ReplayNetwork(1, 2)

SpecPair == Init /\ [][PairNext]_vars

\* ------------------------------------------------------- concurrent calls
\* Calls made at once on one client, each with one of a few argument lists
\* and a network that answers from a few responses.
ConcInputs ==
  {[variant |-> "send_request", url |-> <<"A", ":">>, method |-> "GET",
    body |-> None],
   [variant |-> "send_request_with_headers", url |-> <<"A", ":">>,
    method |-> "POST", body |-> Some(TextHello)],
   [variant |-> "send_request_with_headers", url |-> <<"A", " ", "A">>,
    method |-> "PUT", body |-> None],
   [variant |-> "send_request", url |-> <<"A", ":">>, method |-> "PATCH",
    body |-> Some(TextHello)]}
ConcStatuses == {200, 403}
ConcHeaderMaps == {<< <<"x-rate-limit", "15">> >>}
ConcTexts == {<<"{", "}">>, NotJson}
ConcFailures == {"timeout"}

ConcInit ==
  /\ Init
  /\ client \in {new(<<"k">>, <<"k">>, <<"k">>, <<"k">>),
                 new(<<"k">>, <<"k">>, <<"k">>, <<>>)}

\* One step of call c: a statement of its function, or the network
\* completing the await the call stands at.
ConcCall(c) ==
  \/ send_request_credentials(c)
  \/ send_request_url(c)
  \/ send_request_body(c)
  \/ send_request_method(c)
  \/ send_request_send(c)
  \/ send_request_with_headers_credentials(c)
  \/ send_request_with_headers_url(c)
  \/ send_request_with_headers_body(c)
  \/ send_request_with_headers_method(c)
  \/ send_request_with_headers_send(c)
  \/ \E kind \in ConcFailures :
       \/ send_request_network_error(c, kind)
       \/ send_request_with_headers_network_error(c, kind)
       \/ send_request_json_read_error(c, kind)
       \/ send_request_with_headers_json_read_error(c, kind)
  \/ \E status \in ConcStatuses, hdrs \in ConcHeaderMaps :
       \/ send_request_response(c, status, hdrs)
       \/ send_request_with_headers_response(c, status, hdrs)
  \/ \E text \in ConcTexts :
       \/ send_request_json(c, text)
       \/ send_request_with_headers_json(c, text)

ConcNext ==
  \/ \E c \in Calls : pc[c] = "Idle" /\
       \E a \in ConcInputs : Invoke(c, a.variant, a.url, a.method, a.body)
  \/ \E c \in Calls : ConcCall(c)

SpecConc == ConcInit /\ [][ConcNext]_vars

\* The runtime keeps polling a call that can run, and the network ends
\* every operation it was given, with an answer or with a failure.
FairSpec == SpecConc /\ \A c \in Calls : WF_vars(ConcCall(c))

\* ----------------------------------------------------------------- claims
SecretFields ==
  {"consumer_key", "access_token", "consumer_key_secret", "access_token_secret"}
AnySecretEmpty == \E f \in SecretFields : client[f] = <<>>
AllSecretsSet == \A f \in SecretFields : client[f] # <<>>
Started(c) == pc[c] # "Idle"
Terminal(c) == pc[c] \in {"Done", "Panicked"}
Supported == {"GET", "POST", "PUT", "DELETE"}
ResultKinds == {"Ok", "MissingCredentials", "UrlParseError", "NetworkError",
                "JsonParseError", "ApiError"}

\* C1: on a client with an empty secret a dispatch call of either variant
\* goes from the credentials check straight to the single result
\* MissingCredentials, and it never sends.
C1_MissingCredentialsNoSend ==
  AnySecretEmpty =>
    \A c \in Calls :
      /\ sends[c] = 0
      /\ ~request[c].built
      /\ pc[c] \in {"Idle", "Unvalidated", "Done"}
      /\ pc[c] = "Done" => results[c] = <<Err("MissingCredentials", <<>>)>>

C1_Witness ==
  \E c \in Calls :
    /\ client.access_token_secret = <<>>
    /\ client.consumer_key # <<>>
    /\ args[c].variant = "send_request_with_headers"
    /\ args[c].method = "POST"
    /\ args[c].body.some
    /\ pc[c] = "Done"
    /\ results[c][1].kind = "MissingCredentials"

\* C2: with four non-empty secrets, a call whose URL does not parse ends
\* with the single result UrlParseError and never sends.
C2_UrlParseErrorNoSend ==
  AllSecretsSet =>
    \A c \in Calls :
      (Started(c) /\ ~UrlParse(args[c].url).ok) =>
        /\ sends[c] = 0
        /\ ~request[c].built
        /\ pc[c] \in {"Unvalidated", "CredentialsChecked", "Done"}
        /\ pc[c] = "Done" =>
             results[c] = <<Err("UrlParseError", <<"RelativeUrlWithoutBase">>)>>

C2_Witness ==
  \E c \in Calls :
    /\ AllSecretsSet
    /\ args[c].url = <<"A", " ", "A">>
    /\ args[c].variant = "send_request"
    /\ pc[c] = "Done"
    /\ results[c][1].kind = "UrlParseError"
    /\ sends[c] = 0

\* C3: a call that has sent ran on a client with all secrets set and with a
\* URL that parsed; a call with an empty secret and an unparsable URL ends
\* with MissingCredentials, not with UrlParseError.
C3_ChecksInOrderBeforeSend ==
  \A c \in Calls :
    /\ sends[c] > 0 => AllSecretsSet /\ UrlParse(args[c].url).ok
    /\ (pc[c] = "Done" /\ AnySecretEmpty /\ ~UrlParse(args[c].url).ok) =>
         /\ results[c][1].kind = "MissingCredentials"
         /\ \A i \in 1..Len(results[c]) : results[c][i].kind # "UrlParseError"

C3_Witness ==
  \E c \in Calls :
    /\ AnySecretEmpty
    /\ ~UrlParse(args[c].url).ok
    /\ args[c].variant = "send_request"
    /\ pc[c] = "Done"
    /\ results[c][1].kind = "MissingCredentials"

\* C4: every call of is_initialized returns TRUE exactly when the four
\* secrets are all non-empty, and a call leaves the client and every
\* dispatch call as they were.
C4_IsInitializedIffAllSet ==
  /\ [](\A i \in 1..Len(init_returns) : init_returns[i] = AllSecretsSet)
  /\ [][init_returns' # init_returns =>
          UNCHANGED <<client, pc, args, parsed_url, json_body, request, sends,
                      response, headers, fault, results>>]_vars

C4_Witness ==
  /\ Len(init_returns) = MaxInitCalls
  /\ init_returns[1] = FALSE
  /\ init_returns[MaxInitCalls] = FALSE
  /\ client.consumer_key # <<>>
  /\ client.access_token = <<>>

\* C5 as stated: a call with a method outside GET, POST, PUT, DELETE never
\* hands a Result to the caller, whatever the credentials, URL and body.
C5_UnsupportedMethodNeverReturns ==
  \A c \in Calls :
    (Started(c) /\ args[c].method \notin Supported) => results[c] = <<>>

\* C5 amended: on a client with all secrets set and with a URL that parses,
\* a call with a method outside GET, POST, PUT, DELETE hands no Result to
\* the caller and its terminal state is the panic, whatever the body; with
\* an empty secret it returns MissingCredentials and with an unparsable URL
\* UrlParseError.
C5_UnsupportedMethodPanicsAfterChecks ==
  \A c \in Calls :
    (Started(c) /\ args[c].method \notin Supported) =>
      /\ (AllSecretsSet /\ UrlParse(args[c].url).ok) =>
           /\ results[c] = <<>>
           /\ pc[c] # "Done"
           /\ pc[c] \in {"Unvalidated", "CredentialsChecked", "UrlParsed",
                         "Serialized", "Panicked"}
      /\ (Terminal(c) /\ AnySecretEmpty) =>
           pc[c] = "Done" /\ results[c] = <<Err("MissingCredentials", <<>>)>>
      /\ (Terminal(c) /\ AllSecretsSet /\ ~UrlParse(args[c].url).ok) =>
           pc[c] = "Done" /\ results[c][1].kind = "UrlParseError"

C5_Witness ==
  \E c \in Calls :
    /\ args[c].method = "PATCH"
    /\ args[c].variant = "send_request"
    /\ args[c].body = Some(TextHello)
    /\ AllSecretsSet
    /\ json_body[c] # <<>>
    /\ pc[c] = "Panicked"
    /\ results[c] = <<>>

\* C6 as stated: every terminal state of a call carries exactly one Result
\* of the six kinds.
C6_EveryTerminalStateOneResult ==
  \A c \in Calls :
    Terminal(c) =>
      Len(results[c]) = 1 /\ results[c][1].kind \in ResultKinds

\* C6 amended: a call that returns carries exactly one Result, of one of the
\* six kinds; a call that panics (unsupported method, or a body that cannot
\* be serialized) carries none, and so does a call that has not ended.
C6_OneResultPerReturn ==
  \A c \in Calls :
    /\ pc[c] = "Done" =>
         Len(results[c]) = 1 /\ results[c][1].kind \in ResultKinds
    /\ pc[c] # "Done" => results[c] = <<>>

C6_Witness ==
  \E c \in Calls :
    /\ pc[c] = "Done"
    /\ args[c].variant = "send_request"
    /\ response[c].received
    /\ response[c].status = 403
    /\ response[c].body_read
    /\ response[c].text = NotJson
    /\ Len(results[c]) = 1
    /\ results[c][1].kind = "JsonParseError"

\* C7 as stated: a call during which the transport failed, while sending or
\* while receiving, ends with NetworkError.
C7_TransportFailureIsNetworkError ==
  \A c \in Calls :
    (pc[c] = "Done" /\ fault[c].phase # "none") =>
      \A i \in 1..Len(results[c]) : results[c][i].kind = "NetworkError"

\* What the body of the response decodes to, when it has been read.
Decoded(c) ==
  IF response[c].body_read THEN from_slice(response[c].text)
  ELSE [ok |-> FALSE, val |-> NoValue]
TwoXX(status) == status \in 200..299
\* sub occurs in msg as a run of consecutive tokens
Embeds(msg, sub) ==
  \E i \in 0..(Len(msg) - Len(sub)) : SubSeq(msg, i + 1, i + Len(sub)) = sub

\* C8: a call that received a response with a 2xx status returns success
\* exactly when the body decodes as JSON, the success carries the decoded
\* value, and otherwise the result is JsonParseError.
C8_SuccessStatusDecodeOrParseError ==
  \A c \in Calls :
    (pc[c] = "Done" /\ response[c].received /\ TwoXX(response[c].status)) =>
      LET r == results[c][1]
      IN /\ r.kind = "Ok" <=> Decoded(c).ok
         /\ r.kind = "Ok" => r.value = Decoded(c).val
         /\ ~Decoded(c).ok => r.kind = "JsonParseError"
         /\ r.kind \notin {"NetworkError", "ApiError"}

C8_Witness ==
  \E c \in Calls :
    /\ pc[c] = "Done"
    /\ response[c].status = 200
    /\ response[c].text = <<"{", "\"id\"", ":", "42", "}">>
    /\ results[c][1].kind = "Ok"
    /\ results[c][1].value = JMap(<<JStr("id"), JNum(42)>>)

\* C9: a call that received a response with a non-2xx status never returns
\* success; when the body decodes it returns ApiError whose message holds
\* the status and the decoded body, and when the body does not decode it
\* returns JsonParseError, whose message does not hold the status.
C9_ErrorStatusApiErrorOrParseError ==
  \A c \in Calls :
    (pc[c] = "Done" /\ response[c].received /\ ~TwoXX(response[c].status)) =>
      LET r == results[c][1]
          st == <<StatusDisplay[response[c].status]>>
      IN /\ r.kind # "Ok"
         /\ Decoded(c).ok =>
              /\ r.kind = "ApiError"
              /\ Embeds(r.msg, st)
              /\ Embeds(r.msg, to_string(Decoded(c).val).text)
         /\ ~Decoded(c).ok =>
              /\ r.kind = "JsonParseError"
              /\ ~Embeds(r.msg, st)

C9_Witness ==
  \E c \in Calls :
    /\ pc[c] = "Done"
    /\ response[c].status = 403
    /\ response[c].text = <<"{", "\"error\"", ":", "\"forbidden\"", "}">>
    /\ results[c][1].kind = "ApiError"
    /\ Embeds(results[c][1].msg, <<"403 Forbidden">>)
    /\ Embeds(results[c][1].msg, <<"\"forbidden\"">>)

\* How far a call has come.
Rank(label) ==
  CASE label = "Idle" -> 0
    [] label = "Unvalidated" -> 1
    [] label = "CredentialsChecked" -> 2
    [] label = "UrlParsed" -> 3
    [] label = "Serialized" -> 4
    [] label = "RequestBuilt" -> 5
    [] label = "Sent" -> 6
    [] label = "ResponseReceived" -> 7
    [] OTHER -> 8

\* C10: a call sends at most once; every step of a call moves it forward
\* and no step after its send sends again; a call that returned, with all
\* secrets set, a parsable URL, a supported method and a body that is
\* absent or serializable, has sent exactly once.
C10_SendsOnceNoRetry ==
  /\ [](\A c \in Calls :
          /\ sends[c] <= 1
          /\ (/\ pc[c] = "Done"
              /\ AllSecretsSet
              /\ UrlParse(args[c].url).ok
              /\ args[c].method \in Supported
              /\ (args[c].body.some => to_string(args[c].body.v).ok))
             => sends[c] = 1)
  /\ [][\A c \in Calls :
          /\ pc'[c] # pc[c] => Rank(pc'[c]) > Rank(pc[c])
          /\ Rank(pc[c]) >= 6 => sends'[c] = sends[c]]_vars

C10_Witness ==
  \E c \in Calls :
    /\ pc[c] = "Done"
    /\ fault[c].phase = "send"
    /\ results[c][1].kind = "NetworkError"
    /\ sends[c] = 1

\* C11: the request built for a POST call carries Content-Type
\* application/json and, when a body was supplied, its JSON text; the
\* request built for GET, PUT or DELETE carries no body and no content
\* type, with or without a supplied body.
C11_PostCarriesJsonOthersNoBody ==
  \A c \in Calls :
    request[c].built =>
      /\ request[c].method = args[c].method
      /\ args[c].method = "POST" =>
           /\ request[c].content_type = "application/json"
           /\ request[c].has_body
           /\ args[c].body.some =>
                /\ to_string(args[c].body.v).ok
                /\ request[c].body = to_string(args[c].body.v).text
      /\ args[c].method \in {"GET", "PUT", "DELETE"} =>
           /\ request[c].content_type = ""
           /\ ~request[c].has_body
           /\ request[c].body = <<>>

C11_Witness ==
  \E c \in Calls :
    /\ args[c].method = "POST"
    /\ args[c].body = Some(TextHello)
    /\ sends[c] = 1
    /\ request[c].content_type = "application/json"
    /\ request[c].body = <<"{", "\"text\"", ":", "\"hello\"", "}">>

\* The supplied body of call c cannot be serialized.
Unserializable(c) == args[c].body.some /\ ~to_string(args[c].body.v).ok

\* C12 as stated: a call whose supplied body cannot be serialized never
\* panics; once the credentials and the URL have passed, it returns the
\* typed result SerializationError.
C12_SerializationErrorIsTyped ==
  \A c \in Calls :
    Unserializable(c) =>
      /\ pc[c] # "Panicked"
      /\ (pc[c] = "Done" /\ AllSecretsSet /\ UrlParse(args[c].url).ok) =>
           results[c][1].kind = "SerializationError"

\* C17: a call whose supplied body cannot be serialized never sends and
\* never builds a request, whatever the method; it never returns success,
\* and once the credentials and the URL have passed it ends in the panic
\* of the serialization step, before the method match.
C17_UnserializableBodyFailsNoSend ==
  \A c \in Calls :
    Unserializable(c) =>
      /\ sends[c] = 0
      /\ ~request[c].built
      /\ json_body[c] = <<>>
      /\ pc[c] \in {"Unvalidated", "CredentialsChecked", "UrlParsed",
                    "Done", "Panicked"}
      /\ \A i \in 1..Len(results[c]) : results[c][i].kind # "Ok"
      /\ (Terminal(c) /\ AllSecretsSet /\ UrlParse(args[c].url).ok) =>
           pc[c] = "Panicked"

C17_Witness ==
  \E c \in Calls :
    /\ args[c].body = Some(MapKeyedByMap)
    /\ args[c].method = "GET"
    /\ args[c].variant = "send_request"
    /\ pc[c] = "Panicked"
    /\ sends[c] = 0

\* C18: a call with a method outside GET, POST, PUT, DELETE never sends; it
\* is in the panic state only on a client with all secrets set and with a
\* URL that parsed; with an empty secret it ends with MissingCredentials
\* and with an unparsable URL with UrlParseError.
C18_MethodPanicAfterChecksBeforeSend ==
  \A c \in Calls :
    (Started(c) /\ args[c].method \notin Supported) =>
      /\ sends[c] = 0
      /\ ~request[c].built
      /\ pc[c] = "Panicked" =>
           /\ AllSecretsSet
           /\ UrlParse(args[c].url).ok
           /\ parsed_url[c] = UrlParse(args[c].url).url
      /\ (pc[c] = "Done" /\ AnySecretEmpty) =>
           results[c][1].kind = "MissingCredentials"
      /\ (pc[c] = "Done" /\ AllSecretsSet) =>
           /\ ~UrlParse(args[c].url).ok
           /\ results[c][1].kind = "UrlParseError"

C18_Witness ==
  \E c \in Calls :
    /\ args[c].method = "PATCH"
    /\ args[c].variant = "send_request"
    /\ args[c].body = None
    /\ args[c].url = <<" ", "A", ":">>
    /\ parsed_url[c] = <<"a", ":">>
    /\ pc[c] = "Panicked"
    /\ sends[c] = 0

\* C20: a POST call without a body builds and sends a request with
\* Content-Type application/json and the empty text as payload, which is
\* not a JSON text; the missing body stops the call nowhere, so a call that
\* ended on a client with all secrets set and a parsable URL has sent.
C20_PostWithoutBodySendsEmptyPayload ==
  \A c \in Calls :
    (Started(c) /\ args[c].method = "POST" /\ ~args[c].body.some) =>
      /\ pc[c] # "Panicked"
      /\ json_body[c] = <<>>
      /\ (AllSecretsSet /\ UrlParse(args[c].url).ok /\ Rank(pc[c]) >= 5) =>
           /\ request[c].built
           /\ request[c].content_type = "application/json"
           /\ request[c].has_body
           /\ request[c].body = <<>>
           /\ ~from_slice(request[c].body).ok
      /\ (pc[c] = "Done" /\ AllSecretsSet /\ UrlParse(args[c].url).ok) =>
           sends[c] = 1

C20_Witness ==
  \E c \in Calls :
    /\ args[c].method = "POST"
    /\ args[c].body = None
    /\ args[c].variant = "send_request"
    /\ sends[c] = 1
    /\ request[c].has_body
    /\ request[c].body = <<>>
    /\ pc[c] = "Done"
    /\ results[c][1].kind = "Ok"

\* C13: in send_request_with_headers the header local holds the response's
\* headers from the arrival of the response on, so before the body is read;
\* on a 2xx response whose body decodes the result carries these headers
\* and the decoded body, and on a non-2xx response whose body decodes the
\* ApiError message holds the header set.
C13_HeadersCapturedBeforeBody ==
  \A c \in Calls :
    (args[c].variant = "send_request_with_headers" /\ response[c].received) =>
      /\ headers[c].captured
      /\ headers[c].map = response[c].headers
      /\ (pc[c] = "Done" /\ Decoded(c).ok) =>
           LET r == results[c][1]
           IN IF TwoXX(response[c].status)
                THEN /\ r.kind = "Ok"
                     /\ r.headers = response[c].headers
                     /\ r.value = Decoded(c).val
                ELSE /\ r.kind = "ApiError"
                     /\ Embeds(r.msg, <<":">> \o HeaderDebug(response[c].headers))

C13_Witness ==
  \E c \in Calls :
    /\ args[c].variant = "send_request_with_headers"
    /\ pc[c] = "Done"
    /\ response[c].status = 200
    /\ response[c].headers = << <<"x-rate-limit", "15">> >>
    /\ response[c].text = <<"{", "}">>
    /\ results[c][1].kind = "Ok"
    /\ results[c][1].value = JMap(<<>>)
    /\ results[c][1].headers = << <<"x-rate-limit", "15">> >>

\* The kinds of the Results a call handed out, in order.
Kinds(c) == [i \in 1..Len(results[c]) |-> results[c][i].kind]

\* C14: send_request (call 1) and send_request_with_headers (call 2), run
\* on the same client with the same url, method and body against the same
\* network behaviour, end alike: both return or both panic, with the same
\* kind of outcome and the same number of sends, and on success the body
\* of the headers variant is the value of send_request; the headers variant
\* never sends where send_request did not.
C14_VariantsAgree ==
  /\ sends[2] <= sends[1]
  /\ (Terminal(1) /\ Terminal(2)) =>
       /\ pc[2] = pc[1]
       /\ sends[2] = sends[1]
       /\ Kinds(2) = Kinds(1)
       /\ \A i \in 1..Len(results[1]) :
            results[1][i].kind = "Ok" => results[2][i].value = results[1][i].value

C14_Witness ==
  /\ pc[1] = "Done"
  /\ pc[2] = "Done"
  /\ args[2].url = args[1].url
  /\ args[1].method = "POST"
  /\ response[1].status = 200
  /\ response[2] = response[1]
  /\ response[1].headers # <<>>
  /\ results[1][1].kind = "Ok"
  /\ results[2][1].kind = "Ok"
  /\ results[1][1].value = JMap(<<JStr("id"), JNum(42)>>)
  /\ results[2][1].value = results[1][1].value
  /\ results[2][1].headers # results[1][1].headers

\* C15 as stated: the wait for the network is the only suspension point, so
\* no call stands between the arrival of its response and its result.
C15_NoSuspensionAfterResponse ==
  \A c \in Calls : response[c].received => Terminal(c)

\* C15 amended: a call takes something from the network only at its two
\* awaits, response.await and response.json().await; the statements before
\* the send take nothing from it; the arrival of the response leaves the
\* call without a result, waiting for the body; the arrival of the body,
\* its decoding and the result are one step.
C15_TwoSuspensionPoints ==
  [][\A c \in Calls :
       /\ (response'[c] # response[c] \/ fault'[c] # fault[c]) =>
            pc[c] \in {"Sent", "ResponseReceived"}
       /\ (~response[c].received /\ response'[c].received) =>
            /\ pc[c] = "Sent"
            /\ pc'[c] = "ResponseReceived"
            /\ results'[c] = <<>>
       /\ (~response[c].body_read /\ response'[c].body_read) =>
            /\ pc[c] = "ResponseReceived"
            /\ pc'[c] = "Done"
            /\ Len(results'[c]) = 1]_vars

C15_Witness ==
  \E c, d \in Calls :
    /\ c # d
    /\ pc[c] = "ResponseReceived"
    /\ args[c].variant = "send_request"
    /\ results[c] = <<>>
    /\ pc[d] = "Done"
    /\ response[d].body_read

\* C16: under every interleaving, a call that ended has the Results it has
\* when run alone with its arguments and its answers from the network, and
\* it panicked exactly when it has none; no step changes the client.
C16_CallsIndependent ==
  /\ [](\A c \in Calls :
          Terminal(c) =>
            /\ results[c] = RunAlone(client, args[c], response[c], fault[c])
            /\ pc[c] = "Panicked" <=> results[c] = <<>>)
  /\ [][client' = client]_vars

C16_Witness ==
  \E c, d \in Calls :
    /\ c < d
    /\ pc[d] = "Done"
    /\ results[d][1].kind = "ApiError"
    /\ args[d].variant = "send_request"
    /\ pc[c] = "ResponseReceived"
    /\ response[c].status = 200
    /\ args[c] # args[d]

\* A call waits for the network.
Pending(c) == pc[c] \in {"Sent", "ResponseReceived"}

\* C19: when the runtime and the network are fair, every call that was
\* started ends; a call that waits for the network has no result, and it
\* leaves its wait only in a step in which the network delivered a response,
\* a body or a failure, there being no timeout of its own.
C19_TerminatesIffNetworkDelivers ==
  /\ \A c \in Calls : Started(c) ~> Terminal(c)
  /\ [](\A c \in Calls : Pending(c) => results[c] = <<>>)
  /\ [][\A c \in Calls :
          (Pending(c) /\ pc'[c] # pc[c]) =>
            (response'[c] # response[c] \/ fault'[c] # fault[c])]_vars

C19_Witness ==
  \E c, d \in Calls :
    /\ c # d
    /\ pc[c] = "Done"
    /\ fault[c].phase = "body"
    /\ pc[d] = "Sent"
    /\ results[d] = <<>>

====
